---- MODULE Spec2Model ----
(***************************************************************************)
(* GatorGuide: the map tile pipeline (tile cache and fetcher) and the      *)
(* fallback compositor render_tile_set of src/src/map_renderer.rs.         *)
(*                                                                         *)
(* The specifications share the variables:                                 *)
(*   SpecRender      one call of render_tile_set on a pipeline whose cache *)
(*                   is in an arbitrary state;                             *)
(*   Spec            the tile pipeline driven frame by frame: camera       *)
(*                   input, update, the fetch workers and get_tile;        *)
(*   SpecInput       the window-event handlers of run_app (src/src/lib.rs) *)
(*                   that drive the camera: wheel, cursor, mouse button;   *)
(*   SpecGraticule   line_distance_for_viewport_degrees, frame after frame *)
(*                   on one axis of the window;                            *)
(*   SpecProjection  world_x_to_pixel_x and world_y_to_pixel_y;            *)
(*   SpecNmea        the NMEA driver thread (src/src/nmea_driver.rs) and   *)
(*                   the UI thread's end of its channel; SpecNmeaFair is   *)
(*                   SpecNmea with a fairly scheduled driver thread;       *)
(*   SpecDraw        map_renderer::draw, frame after frame, between camera *)
(*                   events and clicks on the weather button;              *)
(*   SpecLines       the grid lines draw_lat_long draws on one axis;       *)
(*   SpecPlanes      plane_data_loop (src/src/request_plane.rs) and a      *)
(*                   reader of PlaneRequester::planes_storage;             *)
(*   SpecGrouping    request_plane_data on the states the API answered.    *)
(***************************************************************************)
EXTENDS Integers, Sequences, FiniteSets, Bags, TLC

\* Bounds of the model.
MaxZ == 2          \* largest integer zoom of the camera
MaxTiles == 4      \* largest number of tiles tile_iter yields (columns * rows)
MaxOrigin == 1     \* largest x / y of the first tile tile_iter yields
DynMaxZ == 1       \* largest integer zoom the camera of Spec reaches

\* The on-screen edge length of a tile at the target zoom (it.tile_size), in
\* half-pixel-free units: even, so that size / 2.0 stays an integer.
TilePx == 2

VARIABLES
    view,          \* the camera's tile grid: what tile_iter yields
    cache,         \* TilePipeline: TileId -> CacheEntry
    tileSize,      \* TilePipeline::tile_size() is Some
    rpc,           \* render_tile_set: position
    missing,       \* render_tile_set: `missing` (a RenderLayer)
    zoom_level,    \* render_tile_set: `zoom_level`
    size,          \* render_tile_set: `size`
    draw_layers,   \* render_tile_set: `draw_layers`
    drawn,         \* the Image widgets set, in order
    ids_len,       \* length of the widget id list after ids.resize
    outstanding,   \* TilePipeline: the outstanding-request set
    fetching,      \* the bag of TileIds of the fetch tasks running on the workers
    mailbox,       \* the bag of TileIds of the completed fetches update has not taken
    got,           \* the latest get_tile call of the frame, and its result
    frame,         \* the render thread: handling "events", or "drawing" a frame
    zoom,          \* TileView: the fractional zoom, in 1 / ZoomUnit
    last_cursor_pos, \* run_app: `last_cursor_pos`
    left_pressed,  \* run_app: `left_pressed`
    call,          \* the call the latest window event made on the TileView
    event,         \* the latest window event run_app handled
    dimension_size, \* line_distance_for_viewport_degrees: `dimension_size`
    world_range,   \* line_distance_for_viewport_degrees: `world_range`, in 1 / WorldUnit
    mapped_range,  \* line_distance_for_viewport_degrees: `mapped_range`
    spacing,       \* the value line_distance_for_viewport_degrees returned
    prev_call,     \* the arguments and the result of the call of the frame before
    viewport,      \* WorldViewport: top_left and bottom_right, in 1 / WorldUnit
    window,        \* the window's width and height, in pixels
    world,         \* the world location being projected
    pixel,         \* the results of world_x_to_pixel_x and world_y_to_pixel_y
    npc,           \* the NMEA task thread: its position in into_task / evolve
    port,          \* the serial port is open (evolve holds `reader`)
    line,          \* evolve: what `line` holds after read_line
    error,         \* the Err that evolve returned to into_task
    logged,        \* the errors of evolve that into_task has logged with warn!
    sent,          \* the number of sentences parsed so far
    data_tx,       \* the channel bounded(16): the messages sent and not yet received
    received,      \* the messages try_recv has given the UI, in order
    viewer,        \* run_app: `viewer`, the camera, as the number of its changes
    weather_enabled, \* run_app: `weather_enabled`
    calls,         \* the calls map_renderer::draw made in the latest frame
    axis,          \* draw_lat_long: the lines looked at, "latitude" or "longitude"
    edge_start,    \* draw_lat_long: `lat_top` or `viewport.top_left.x`, in grid units
    edge_far,      \* draw_lat_long: `lat_bottom` or `viewport.bottom_right.x`
    line_distance, \* draw_lat_long: `lat_line_distance` or `line_distance_world`
    lines,         \* the positions of the lines drawn, in order
    ppc,           \* plane_data_loop: its position
    requests,      \* the number of calls of request_plane_data so far
    outcome,       \* what the latest call of request_plane_data came to
    plane_airlines, \* request_plane_data: `plane_airlines`, the list being built
    planes_storage, \* PlaneRequester: the list behind the mutex
    snapshot,      \* what the latest call of planes_storage() returned
    states,        \* request_plane_data: `open_sky.states`, the answer of the API
    grouped        \* what request_plane_data came to on `states`

rvars == <<rpc, missing, zoom_level, size, draw_layers, drawn, ids_len>>
pvars == <<outstanding, fetching, mailbox, got, frame>>
ivars == <<zoom, last_cursor_pos, left_pressed, call, event>>
gvars == <<dimension_size, world_range, mapped_range, spacing, prev_call>>
wvars == <<viewport, window, world, pixel>>
nvars == <<npc, port, line, error, logged, sent, data_tx, received>>
dvars == <<viewer, weather_enabled, calls>>
lvars == <<axis, edge_start, edge_far, line_distance, lines>>
kvars == <<ppc, requests, outcome, plane_airlines, planes_storage, snapshot>>
qvars == <<states, grouped>>
evars == <<nvars, dvars, lvars, kvars, qvars>>
mvars == <<ivars, gvars, wvars, evars>>
vars == <<view, cache, tileSize, rpc, missing, zoom_level, size, draw_layers,
          drawn, ids_len, outstanding, fetching, mailbox, got, frame,
          ivars, gvars, wvars, evars>>

\* lib.rs line 34.
MAX_ZOOM_LEVEL == 20

Pow2(n) == 2 ^ n

Clamp(v, lo, hi) == IF v < lo THEN lo ELSE IF v > hi THEN hi ELSE v

Abs(i) == IF i < 0 THEN 0 - i ELSE i

RECURSIVE Gcd(_, _)
Gcd(a, b) == IF b = 0 THEN a ELSE Gcd(b, a % b)

----------------------------------------------------------------------------
(* f64 values: exact fractions n / d in lowest terms with d > 0, NaN and   *)
(* +infinity. NoFloat stands for a value that was not computed.            *)

Num(n, d) == [kind |-> "num", n |-> n, d |-> d]
NaN == [kind |-> "nan", n |-> 0, d |-> 1]
Inf == [kind |-> "inf", n |-> 1, d |-> 1]
NoFloat == [kind |-> "none", n |-> 0, d |-> 1]

\* The fraction n / d, d /= 0, in lowest terms.
Rat(n, d) ==
    LET g == Gcd(Abs(n), Abs(d))
        s == IF d < 0 THEN 0 - 1 ELSE 1
    IN  Num(s * (n \div g), s * (d \div g))

\* f64 division of the fraction n / d by the number by.
FDiv(n, d, by) ==
    IF by /= 0 THEN Rat(n, d * by)
    ELSE IF n = 0 THEN NaN
    ELSE Inf

\* a <= b for finite a and b.
Leq(a, b) == a.n * b.d <= b.n * a.d

----------------------------------------------------------------------------
(* The values the variables of a specification keep while another one runs *)

NoCall == [fn |-> "none", requested |-> 0, factor |-> 0,
           delta |-> [x |-> 0, y |-> 0, den2 |-> 1]]
None == [some |-> FALSE, x |-> 0, y |-> 0]
NoEvent == [kind |-> "none", button |-> "none", state |-> "none", x |-> 0, y |-> 0]
NoPrevCall == [called |-> FALSE, world_range |-> 0, spacing |-> NoFloat]
NoPoint == [x |-> 0, y |-> 0]
NoPixel == [called |-> FALSE, x |-> NoFloat, y |-> NoFloat]

InputIdle ==
    /\ zoom = 0
    /\ last_cursor_pos = None
    /\ left_pressed = FALSE
    /\ call = NoCall
    /\ event = NoEvent

GraticuleIdle ==
    /\ dimension_size = 0
    /\ world_range = 0
    /\ mapped_range = NoFloat
    /\ spacing = NoFloat
    /\ prev_call = NoPrevCall

ProjectionIdle ==
    /\ viewport = [top_left |-> NoPoint, bottom_right |-> NoPoint]
    /\ window = [w |-> 0, h |-> 0]
    /\ world = NoPoint
    /\ pixel = NoPixel

NmeaIdle ==
    /\ npc = "open"
    /\ port = FALSE
    /\ line = ""
    /\ error = "none"
    /\ logged = {}
    /\ sent = 0
    /\ data_tx = <<>>
    /\ received = <<>>

DrawIdle ==
    /\ viewer = 0
    /\ weather_enabled = FALSE
    /\ calls = <<>>

LinesIdle ==
    /\ axis = "none"
    /\ edge_start = 0
    /\ edge_far = 0
    /\ line_distance = 0
    /\ lines = <<>>

\* A list of planes: the request that made it and the number of its groups.
NoPlanes == [request |-> 0, groups |-> 0]

PlanesIdle ==
    /\ ppc = "send1"
    /\ requests = 0
    /\ outcome = "none"
    /\ plane_airlines = NoPlanes
    /\ planes_storage = NoPlanes
    /\ snapshot = NoPlanes

\* request_plane_data has not been called on the states.
NotGrouped == [kind |-> "none", plane_airlines |-> <<>>]

GroupingIdle ==
    /\ states = <<>>
    /\ grouped = NotGrouped

ExtIdle == NmeaIdle /\ DrawIdle /\ LinesIdle /\ PlanesIdle /\ GroupingIdle

----------------------------------------------------------------------------
(* Tiles, cache entries                                                    *)

TileId(x, y, z) == [x |-> x, y |-> y, zoom |-> z]

\* Every TileId of the tiling scheme up to MaxZ.
AllTiles == UNION {{TileId(x, y, z) : x \in 0..(Pow2(z) - 1), y \in 0..(Pow2(z) - 1)} :
                   z \in 0..MaxZ}

\* CacheEntry. The retry-after time of a Failed entry is not kept: whether it
\* has elapsed is a choice of update.
PendingEntry == [state |-> "Pending"]
ReadyEntry == [state |-> "Ready"]
FailedEntry == [state |-> "Failed"]

NoGet == [called |-> FALSE, id |-> TileId(0, 0, 0), some |-> FALSE]

\* get_tile(id).is_some()
GetTile(c, id) == id \in DOMAIN c /\ c[id].state = "Ready"

----------------------------------------------------------------------------
(* The camera's tile grid                                                  *)

\* The views whose grid lies inside the world at their zoom.
Views == {v \in [zoom : 0..MaxZ, x0 : 0..MaxOrigin, y0 : 0..MaxOrigin,
                 cols : 1..MaxTiles, rows : 1..MaxTiles] :
            /\ v.cols * v.rows <= MaxTiles
            /\ v.x0 + v.cols <= Pow2(v.zoom)
            /\ v.y0 + v.rows <= Pow2(v.zoom)}

\* tile_iter: the grid's tiles, column-major.
TileIter(v) == [i \in 1..(v.cols * v.rows) |->
                  <<v.x0 + ((i - 1) \div v.rows), v.y0 + ((i - 1) % v.rows)>>]

\* The tile ids the view needs at its zoom.
Needed(v) == {TileId(TileIter(v)[i][1], TileIter(v)[i][2], v.zoom) :
                i \in 1..(v.cols * v.rows)}

\* The ancestor of id, k levels up.
Up(id, k) == TileId(id.x \div Pow2(k), id.y \div Pow2(k), id.zoom - k)

\* The needed tiles and all their ancestors: the ids render_tile_set can look up.
Lineage(v) == {Up(id, k) : id \in Needed(v), k \in 0..v.zoom}

HalfWidth(v) == (v.cols * TilePx) \div 2
HalfHeight(v) == (v.rows * TilePx) \div 2

----------------------------------------------------------------------------
(* render_tile_set                                                         *)

RenderLayer(sz, z, ts) == [size |-> sz, zoom_level |-> z, tiles |-> ts]

NoLayer == RenderLayer([x |-> 0, y |-> 0], 0, <<>>)

Scale(sz, k) == [x |-> sz.x * k, y |-> sz.y * k]

\* Lines 170-179: every tile of the grid, with the screen position of its centre.
InitialMissing(v, sz) ==
    [i \in 1..(v.cols * v.rows) |->
        [x |-> 0 + ((i - 1) \div v.rows) * sz.x - HalfWidth(v) + sz.x \div 2,
         y |-> 0 - ((i - 1) % v.rows) * sz.y + HalfHeight(v) + sz.y \div 2,
         tile_x |-> TileIter(v)[i][1],
         tile_y |-> TileIter(v)[i][2]]]

\* Line 188: the tile of the missing layer m is in the cache.
Resolved(c, m, t) == GetTile(c, TileId(t.tile_x, t.tile_y, m.zoom_level))

\* Faulty variant: the tile coordinates are kept, not halved.
AncestorNotHalved(t, sz) ==
    [x |-> t.x - (t.tile_x % 2) * sz.x + sz.x \div 2,
     y |-> t.y + (t.tile_y % 2) * sz.y - sz.y \div 2,
     tile_x |-> t.tile_x,
     tile_y |-> t.tile_y]
\* Faulty variant: the centre is moved without regard to the quadrant.
AncestorNoQuadrant(t, sz) ==
    [x |-> t.x + sz.x \div 2,
     y |-> t.y - sz.y \div 2,
     tile_x |-> t.tile_x \div 2,
     tile_y |-> t.tile_y \div 2]
\* Lines 193-201: the tile that replaces a missing one.
Ancestor(t, sz) ==
    [x |-> t.x - (t.tile_x % 2) * sz.x + sz.x \div 2,
     y |-> t.y + (t.tile_y % 2) * sz.y - sz.y \div 2,
     tile_x |-> t.tile_x \div 2,
     tile_y |-> t.tile_y \div 2]

MapSeq(s, Op(_)) == [i \in 1..Len(s) |-> Op(s[i])]

\* Faulty variant: every tile of the missing layer is pushed to newest_layer.
NewestTilesAll(c, m) == m.tiles
\* Lines 188-190: the tiles pushed to newest_layer.
NewestTiles(c, m) == SelectSeq(m.tiles, LAMBDA t : Resolved(c, m, t))

\* Faulty variant: the ancestor is pushed for every tile, resolved or not.
NewMissingTilesAll(c, m, sz) == MapSeq(m.tiles, LAMBDA t : Ancestor(t, sz))
\* Lines 191-204: the tiles pushed to new_missing.
NewMissingTiles(c, m, sz) ==
    MapSeq(SelectSeq(m.tiles, LAMBDA t : ~Resolved(c, m, t)), LAMBDA t : Ancestor(t, sz))

\* Faulty variant: the loop goes on below zoom 0.
LoopCondNoZoomGuard(m, z) == m.tiles /= <<>>
\* Line 181: the loop's condition.
LoopCond(m, z) == m.tiles /= <<>> /\ z > 0

Reverse(s) == [i \in 1..Len(s) |-> s[Len(s) + 1 - i]]

\* Faulty variant: the layers are drawn in the order they were pushed.
DrawOrderAsPushed(layers) == layers
\* Line 227: the order the layers are drawn in.
DrawOrder(layers) == Reverse(layers)

\* Faulty variant: only the tiles of the first layer are counted.
TileCountFirstLayer(layers) == IF layers = <<>> THEN 0 ELSE Len(Head(layers).tiles)
RECURSIVE TileCount(_)
\* Lines 216-220.
TileCount(layers) ==
    IF layers = <<>> THEN 0 ELSE Len(Head(layers).tiles) + TileCount(Tail(layers))

\* Lines 235-246 for one layer: the images set, given the id counter before it.
LayerImages(c, layer, counter) ==
    LET hit == SelectSeq(layer.tiles, LAMBDA t : Resolved(c, layer, t))
    IN  [i \in 1..Len(hit) |->
            [x |-> hit[i].x, y |-> hit[i].y,
             tile_x |-> hit[i].tile_x, tile_y |-> hit[i].tile_y,
             zoom |-> layer.zoom_level, size |-> layer.size,
             id |-> counter + i - 1]]

RECURSIVE Images(_, _, _)
\* Lines 229-247.
Images(c, layers, counter) ==
    IF layers = <<>> THEN <<>>
    ELSE LET first == LayerImages(c, Head(layers), counter)
         IN  first \o Images(c, Tail(layers), counter + Len(first))

\* Lines 142-179. tile_size().unwrap() panics when no tile size is known.
RenderStart ==
    /\ rpc = "idle"
    /\ IF ~tileSize
       THEN /\ rpc' = "panic"
            /\ UNCHANGED <<missing, zoom_level, size>>
       ELSE /\ rpc' = "loop"
            /\ size' = [x |-> TilePx, y |-> TilePx]
            /\ zoom_level' = view.zoom
            /\ missing' = RenderLayer(size', zoom_level', InitialMissing(view, size'))
    /\ UNCHANGED <<view, cache, tileSize, draw_layers, drawn, ids_len>>
    /\ UNCHANGED <<pvars, mvars>>

\* Lines 181-213: one iteration of the fallback loop.
RenderLoopIter ==
    /\ rpc = "loop"
    /\ LoopCond(missing, zoom_level)
    /\ LET newest_layer == RenderLayer(size, zoom_level, NewestTiles(cache, missing))
           new_missing == RenderLayer(Scale(size, 2), zoom_level - 1,
                                      NewMissingTiles(cache, missing, size))
       IN  /\ zoom_level' = zoom_level - 1
           /\ size' = Scale(size, 2)
           /\ draw_layers' = Append(draw_layers, newest_layer)
           /\ missing' = new_missing
    /\ UNCHANGED <<view, cache, tileSize, rpc, drawn, ids_len>>
    /\ UNCHANGED <<pvars, mvars>>

\* Lines 215-250: resize the id list, reverse the layers, set the images.
RenderDraw ==
    /\ rpc = "loop"
    /\ ~LoopCond(missing, zoom_level)
    /\ ids_len' = TileCount(draw_layers)
    /\ draw_layers' = DrawOrder(draw_layers)
    /\ drawn' = Images(cache, draw_layers', 0)
    /\ rpc' = "done"
    /\ UNCHANGED <<view, cache, tileSize, missing, zoom_level, size>>
    /\ UNCHANGED <<pvars, mvars>>

RenderIdle ==
    /\ rpc = "idle"
    /\ missing = NoLayer
    /\ zoom_level = 0
    /\ size = [x |-> 0, y |-> 0]
    /\ draw_layers = <<>>
    /\ drawn = <<>>
    /\ ids_len = 0

\* Every cache the lookups of one render_tile_set call can tell apart: any set
\* of the view's lineage Ready, the rest absent or Pending.
InitRender ==
    /\ view \in Views
    /\ \E ready \in SUBSET Lineage(view), rest \in {"absent", "Pending"} :
          cache = [id \in (IF rest = "absent" THEN ready ELSE Lineage(view)) |->
                     IF id \in ready THEN ReadyEntry ELSE PendingEntry]
    /\ tileSize \in BOOLEAN
    /\ (\E id \in DOMAIN cache : cache[id].state = "Ready") => tileSize
    /\ outstanding = {id \in DOMAIN cache : cache[id].state = "Pending"}
    /\ fetching = SetToBag(outstanding)
    /\ mailbox = EmptyBag
    /\ got = NoGet
    /\ frame = "drawing"
    /\ RenderIdle
    /\ InputIdle /\ GraticuleIdle /\ ProjectionIdle /\ ExtIdle

NextRender == RenderStart \/ RenderLoopIter \/ RenderDraw

SpecRender == InitRender /\ [][NextRender]_vars

----------------------------------------------------------------------------
(* The tile pipeline: camera input, update, the fetch workers, get_tile    *)

\* The camera of Spec: a window one tile wide and high, moving along the row
\* y = 0 of the zoom level DynMaxZ and of the level below it.
DynViews == {v \in Views : /\ v.zoom \in {DynMaxZ - 1, DynMaxZ}
                           /\ v.cols = 1 /\ v.rows = 1 /\ v.y0 = 0}

DynTiles == UNION {Needed(v) : v \in DynViews}

\* A scroll event that takes the integer zoom one level in or out; the grid
\* follows the camera centre.
MultiplyZoom ==
    /\ frame = "events"
    /\ \E v \in DynViews :
          /\ \/ v.zoom = view.zoom + 1 /\ v.x0 \in {2 * view.x0, 2 * view.x0 + 1}
             \/ v.zoom = view.zoom - 1 /\ v.x0 = view.x0 \div 2
          /\ view' = v
    /\ UNCHANGED <<cache, tileSize, outstanding, fetching, mailbox, got, frame>>
    /\ UNCHANGED <<rvars, mvars>>

\* A drag that moves the grid by one tile.
MoveCameraPixels ==
    /\ frame = "events"
    /\ \E v \in DynViews :
          /\ v.zoom = view.zoom
          /\ v.x0 \in {view.x0 - 1, view.x0 + 1}
          /\ view' = v
    /\ UNCHANGED <<cache, tileSize, outstanding, fetching, mailbox, got, frame>>
    /\ UNCHANGED <<rvars, mvars>>

\* Faulty variant: every needed tile that is not Ready is fetched.
ShouldFetchNoDedup(c, out, id) == ~GetTile(c, id)
\* Faulty variant: only the outstanding-request set is consulted.
ShouldFetchForgetsCache(c, out, id) == id \notin out
\* update: the needed tile id is fetched if it is absent and not outstanding.
ShouldFetch(c, out, id) == id \notin DOMAIN c /\ id \notin out

\* update: the Failed entry of id is retried once its backoff has elapsed.
ShouldRetry(c, out, id, elapsed) ==
    /\ id \in DOMAIN c
    /\ c[id].state = "Failed"
    /\ elapsed
    /\ id \notin out

\* update: the entry a completed fetch leaves, decoded and uploaded or failed.
CompletedEntry(ok) == IF ok THEN ReadyEntry ELSE FailedEntry

\* Faulty variant: the worker writes the fetched tile into the cache itself.
CacheAfterFetchDoneDirect(c, id) == [c EXCEPT ![id] = ReadyEntry]
\* The cache after a worker finished the fetch of id: untouched, the result
\* waits in the mailbox for update.
CacheAfterFetchDone(c, id) == c

\* draw: update(viewport), once per frame on the render thread.
Update ==
    /\ frame = "events"
    /\ frame' = "drawing"
    /\ \E oks \in SUBSET BagToSet(mailbox), elapsed \in BOOLEAN :
        LET completed == BagToSet(mailbox)
            wanted == {id \in Needed(view) :
                          \/ ShouldFetch(cache, outstanding, id)
                          \/ ShouldRetry(cache, outstanding, id, elapsed)}
            requested == [id \in DOMAIN cache \cup wanted |->
                             IF id \in wanted THEN PendingEntry ELSE cache[id]]
        IN  /\ (elapsed => \E id \in Needed(view) :
                               ShouldRetry(cache, outstanding, id, TRUE))
            /\ cache' = [id \in DOMAIN requested |->
                            IF id \in completed /\ id \notin wanted
                            THEN CompletedEntry(id \in oks)
                            ELSE requested[id]]
            /\ fetching' = fetching (+) SetToBag(wanted)
            /\ mailbox' = EmptyBag
            /\ outstanding' = (outstanding \ completed) \cup wanted
            /\ tileSize' = (tileSize \/ oks /= {})
            /\ UNCHANGED <<view, got>>
            /\ UNCHANGED <<rvars, mvars>>

\* A worker finishes the fetch of id and hands the result to the mailbox.
FetchDone ==
    \E id \in DynTiles :
        /\ BagIn(id, fetching)
        /\ fetching' = fetching (-) SetToBag({id})
        /\ mailbox' = mailbox (+) SetToBag({id})
        /\ cache' = CacheAfterFetchDone(cache, id)
        /\ UNCHANGED <<view, tileSize, outstanding, got, frame>>
        /\ UNCHANGED <<rvars, mvars>>

\* While drawing, the render thread calls get_tile(id) for a needed tile or
\* one of its ancestors.
GetTileCall ==
    /\ frame = "drawing"
    /\ \E id \in Lineage(view) :
          got' = [called |-> TRUE, id |-> id, some |-> GetTile(cache, id)]
    /\ UNCHANGED <<view, cache, tileSize, outstanding, fetching, mailbox, frame>>
    /\ UNCHANGED <<rvars, mvars>>

\* The frame ends; the next events are handled.
EndFrame ==
    /\ frame = "drawing"
    /\ frame' = "events"
    /\ got' = NoGet
    /\ UNCHANGED <<view, cache, tileSize, outstanding, fetching, mailbox>>
    /\ UNCHANGED <<rvars, mvars>>

Init ==
    /\ view \in {v \in DynViews : v.zoom = DynMaxZ /\ v.x0 = 0}
    /\ cache = <<>>
    /\ tileSize = FALSE
    /\ outstanding = {}
    /\ fetching = EmptyBag
    /\ mailbox = EmptyBag
    /\ got = NoGet
    /\ frame = "events"
    /\ RenderIdle
    /\ InputIdle /\ GraticuleIdle /\ ProjectionIdle /\ ExtIdle

Next == MultiplyZoom \/ MoveCameraPixels \/ Update \/ FetchDone \/ GetTileCall \/ EndFrame

Spec == Init /\ [][Next]_vars

----------------------------------------------------------------------------
(* The window-event handlers of run_app that drive the camera (SpecInput)  *)

\* Bounds of the model.
MaxScroll == 4     \* largest wheel delta: lines, or multiples of PixelStep pixels
PixelStep == 150   \* the pixel deltas of the wheel are the multiples of it
MaxCursorX == 3    \* the cursor's x is in 0..MaxCursorX, in steps of CursorStep pixels
MaxCursorY == 1    \* the cursor's y is in 0..MaxCursorY, in steps of CursorStep pixels

\* lib.rs line 162: a pixel delta is divided by 100.0.
PixelsPerLine == 100
\* lib.rs line 164: the zoom change is divided by 6.0.
ScrollDivisor == 6
\* Zoom changes and zoom factors are counted in 1 / FactorUnit.
FactorUnit == PixelsPerLine * ScrollDivisor
\* lib.rs line 164: clamp(-0.5, 0.5).
MaxZoomChange == FactorUnit \div 2
\* lib.rs line 170: clamp_length_max(300.0), in pixels.
MaxPanLength == 300
\* Cursor positions and pixel deltas are counted in steps of CursorStep pixels.
CursorStep == 100
PanLimit == MaxPanLength \div CursorStep
\* lib.rs line 116: the zoom TileView::new is given.
InitialZoom == 13
\* The fractional zoom is counted in 1 / ZoomUnit.
ZoomUnit == 2

\* MouseScrollDelta.
WheelDeltas ==
    [kind : {"LineDelta"}, y : (0 - MaxScroll)..MaxScroll] \cup
    [kind : {"PixelDelta"}, y : {k * PixelStep : k \in (0 - MaxScroll)..MaxScroll}]

CursorPositions == [x : 0..MaxCursorX, y : 0..MaxCursorY]

\* Lines 160-163: zoom_change, in 1 / PixelsPerLine.
ZoomChange(delta) ==
    IF delta.kind = "LineDelta" THEN delta.y * PixelsPerLine ELSE delta.y

\* Line 164 before the clamp: -zoom_change / 6.0, in 1 / FactorUnit.
RequestedZoomChange(delta) == 0 - ZoomChange(delta)

\* Faulty variant: the requested change is applied as it is.
ClampedZoomChangeNoClamp(delta) == RequestedZoomChange(delta)
\* Line 164.
ClampedZoomChange(delta) ==
    Clamp(RequestedZoomChange(delta), 0 - MaxZoomChange, MaxZoomChange)

\* Line 165: the argument of multiply_zoom.
ZoomFactor(delta) == FactorUnit + ClampedZoomChange(delta)

\* Faulty variant: the zoom is not clamped.
multiply_zoom_unclamped(z, factor) == (z * factor) \div FactorUnit
\* TileView::multiply_zoom: the zoom is multiplied by the factor and clamped
\* to [0, MAX_ZOOM_LEVEL].
multiply_zoom(z, factor) ==
    Clamp((z * factor) \div FactorUnit, 0, MAX_ZOOM_LEVEL * ZoomUnit)

\* DVec2::length_squared.
LengthSquared(v) == v.x * v.x + v.y * v.y

\* Faulty variant: each component is clamped on its own.
clamp_per_component(v, max) ==
    [x |-> Clamp(v.x, 0 - max, max), y |-> Clamp(v.y, 0 - max, max), den2 |-> 1]
\* DVec2::clamp_length_max: a longer vector is scaled to the length max. The
\* result is (x, y) / sqrt(den2).
clamp_length_max(v, max) ==
    IF LengthSquared(v) > max * max
    THEN [x |-> max * v.x, y |-> max * v.y, den2 |-> LengthSquared(v)]
    ELSE [x |-> v.x, y |-> v.y, den2 |-> 1]

\* The tile pipeline and the renderer while the handlers are looked at.
TilesIdle ==
    /\ view = [zoom |-> 0, x0 |-> 0, y0 |-> 0, cols |-> 1, rows |-> 1]
    /\ cache = <<>>
    /\ tileSize = FALSE
    /\ outstanding = {}
    /\ fetching = EmptyBag
    /\ mailbox = EmptyBag
    /\ got = NoGet
    /\ frame = "events"
    /\ RenderIdle

tvars == <<view, cache, tileSize, rvars, pvars>>

\* Lines 159-166.
MouseWheel ==
    \E delta \in WheelDeltas :
        /\ call' = [fn |-> "multiply_zoom",
                    requested |-> RequestedZoomChange(delta),
                    factor |-> ZoomFactor(delta),
                    delta |-> NoCall.delta]
        /\ zoom' = multiply_zoom(zoom, ZoomFactor(delta))
        /\ event' = [NoEvent EXCEPT !.kind = "MouseWheel"]
        /\ UNCHANGED <<last_cursor_pos, left_pressed, tvars, gvars, wvars, evars>>

\* Faulty variant: the button is not looked at.
PansWheneverKnown(last, pressed) == last.some

\* Lines 169 and 171: the conditions move_camera_pixels is called under.
Pans(last, pressed) == last.some /\ pressed

\* Lines 167-177.
CursorMoved ==
    \E position \in CursorPositions :
        /\ IF last_cursor_pos.some
           THEN LET last == [x |-> last_cursor_pos.x, y |-> last_cursor_pos.y]
                    delta == clamp_length_max([x |-> last.x - position.x,
                                               y |-> last.y - position.y], PanLimit)
                IN  IF Pans(last_cursor_pos, left_pressed)
                    THEN call' = [fn |-> "move_camera_pixels", requested |-> 0,
                                  factor |-> 0, delta |-> delta]
                    ELSE call' = NoCall
           ELSE call' = NoCall
        /\ last_cursor_pos' = [some |-> TRUE, x |-> position.x, y |-> position.y]
        /\ event' = [NoEvent EXCEPT !.kind = "CursorMoved", !.x = position.x, !.y = position.y]
        /\ UNCHANGED <<zoom, left_pressed, tvars, gvars, wvars, evars>>

\* Lines 178-182.
MouseInput ==
    \E button \in {"Left", "Right", "Middle"}, state \in {"Pressed", "Released"} :
        /\ left_pressed' = IF button = "Left" THEN state = "Pressed" ELSE left_pressed
        /\ call' = NoCall
        /\ event' = [NoEvent EXCEPT !.kind = "MouseInput", !.button = button, !.state = state]
        /\ UNCHANGED <<zoom, last_cursor_pos, tvars, gvars, wvars, evars>>

\* Lines 116-118.
InitInput ==
    /\ zoom = InitialZoom * ZoomUnit
    /\ last_cursor_pos = None
    /\ left_pressed = FALSE
    /\ call = NoCall
    /\ event = NoEvent
    /\ TilesIdle /\ GraticuleIdle /\ ProjectionIdle /\ ExtIdle

NextInput == MouseWheel \/ CursorMoved \/ MouseInput

SpecInput == InitInput /\ [][NextInput]_vars

\* C12: after any sequence of wheel (multiply_zoom) and pan events the camera's
\* fractional zoom is within [0, MAX_ZOOM_LEVEL], MAX_ZOOM_LEVEL = 20.
C12_ZoomInRange == zoom \in 0..(MAX_ZOOM_LEVEL * ZoomUnit)

\* C12 witness: a wheel event that asked for more than the largest zoom left
\* the camera at the largest zoom, the left button held and the cursor known.
C12_Witness ==
    /\ call.fn = "multiply_zoom"
    /\ call.factor > FactorUnit
    /\ zoom = MAX_ZOOM_LEVEL * ZoomUnit
    /\ left_pressed
    /\ last_cursor_pos.some

\* C13: for every wheel event, whatever its line or pixel delta, the zoom
\* change is clamped to [-0.5, +0.5] and the factor given to multiply_zoom is
\* in [0.5, 1.5]: one event changes the zoom by no more than a 0.5 step.
C13_FactorClamped ==
    (call.fn = "multiply_zoom") =>
        /\ call.factor - FactorUnit \in (0 - MaxZoomChange)..MaxZoomChange
        /\ 2 * call.factor >= FactorUnit
        /\ 2 * call.factor <= 3 * FactorUnit

\* C13 witness: a wheel event asked for more than +0.5 and got the factor 1.5.
C13_Witness ==
    /\ call.fn = "multiply_zoom"
    /\ call.requested > MaxZoomChange
    /\ 2 * call.factor = 3 * FactorUnit

\* The length of the delta d = (x, y) / sqrt(den2) is at most max.
LengthAtMost(d, max) == LengthSquared(d) <= max * max * d.den2

\* C14: the pixel delta a cursor-move event passes to move_camera_pixels has a
\* length of at most 300 pixels, however far the cursor jumped.
C14_PanClamped ==
    (call.fn = "move_camera_pixels") => LengthAtMost(call.delta, PanLimit)

\* C14 witness: the cursor jumped by more than 300 pixels with the button held
\* and the delta passed on was scaled down.
C14_Witness ==
    /\ call.fn = "move_camera_pixels"
    /\ call.delta.den2 > PanLimit * PanLimit
    /\ call.delta.x /= 0
    /\ call.delta.y /= 0

----------------------------------------------------------------------------
(* line_distance_for_viewport_degrees, the spacing of the graticule        *)
(* (SpecGraticule)                                                         *)

\* Bounds of the model: the world ranges are a * 10^k, a in 1..MaxMant and
\* k in 0..MaxExp, in 1 / WorldUnit.
MaxMant == 10
MaxExp == 3

\* world_range is counted in 1 / WorldUnit: WorldUnit is the width of the world.
WorldUnit == 10000

\* map_renderer.rs line 47: range_degrees = world_range * 180.0.
DegreesPerWorldUnit == 180
\* map_renderer.rs line 50: mapped_range = range_degrees * 500.0 / dimension_size.
ReferenceSize == 500
\* map_renderer.rs line 51.
DISTANCE_SCALE == 2

Ranges == {r \in {a * 10 ^ k : a \in 1..MaxMant, k \in 0..MaxExp} : r <= WorldUnit}

\* The extents of the window on one axis, in pixels: ui.win_w or ui.win_h.
Dims == {0, 450, 720, 900}

\* The extent of the viewport on an axis of the window: nothing of the world
\* is seen through a window without extent.
RangesOf(dim) == IF dim = 0 THEN {0} ELSE Ranges

\* Lines 47-50.
MappedRange(range, dim) ==
    FDiv(range * DegreesPerWorldUnit * ReferenceSize, WorldUnit, dim)

\* Faulty variant: the nice distances, smallest first.
MappingAscending == <<1, 2, 5, 15, 45>>
\* Line 54.
Mapping == <<45, 15, 5, 2, 1>>

\* f > k, as f64 compares: false for NaN.
Exceeds(f, k) == f.kind = "inf" \/ (f.kind = "num" /\ f.n > k * f.d)

RECURSIVE FirstDistance(_, _)
\* Lines 55-60: the first distance of ds with mapped > distance * 2.0; 0 when
\* the loop ends without returning.
FirstDistance(mapped, ds) ==
    IF ds = <<>> THEN 0
    ELSE IF Exceeds(mapped, Head(ds) * DISTANCE_SCALE) THEN Head(ds)
    ELSE FirstDistance(mapped, Tail(ds))

RECURSIVE CeilLog10(_, _)
\* ceil(log10(n / d)) for 0 < n / d <= 1.
CeilLog10(n, d) == IF 10 * n > d THEN 0 ELSE CeilLog10(10 * n, d) - 1

RECURSIVE Mantissa(_, _)
\* The a with 1 < a / d <= 10 and a / d = (n / d) * 10^k for an integer k.
Mantissa(n, d) == IF 10 * n > d THEN 10 * n ELSE Mantissa(10 * n, d)

\* Line 63, part = power.rem_euclid(1.0), for the mantissa a / d: part is 0
\* when n / d is a power of ten (a = 10 * d) and log10(a / d) otherwise.
\* part >= 0.5 iff (a / d)^2 >= 10.
PartAtLeastHalf(a, d) == a /= 10 * d /\ a * a >= 10 * d * d
\* part >= 0.2 iff a / d >= 10^0.2 = 1.5848932...; no a / d of the model lies
\* between 1.58489 and that.
PartAtLeastFifth(a, d) == a /= 10 * d /\ a * 100000 > 158489 * d

\* Lines 62-75 for a mapped range in (0, 2].
LogDistance(mapped) ==
    LET n == mapped.n
        d == mapped.d * DISTANCE_SCALE
        int_power == CeilLog10(n, d)
        a == Mantissa(n, d)
    IN  IF PartAtLeastHalf(a, d) THEN Rat(5, 10 ^ (1 - int_power))
        ELSE IF PartAtLeastFifth(a, d) THEN Rat(2, 10 ^ (1 - int_power))
        ELSE Rat(1, 10 ^ (1 - int_power))

\* Lines 52-75. A NaN mapped range fails every comparison and gives the power
\* NaN, int_power 0 and so 0.1; the mapped range 0 gives the power -infinity,
\* int_power i32::MIN and so 0.1 * 0.
LineDistance(mapped) ==
    IF FirstDistance(mapped, Mapping) /= 0 THEN Num(FirstDistance(mapped, Mapping), 1)
    ELSE IF mapped.kind = "nan" THEN Rat(1, 10)
    ELSE IF mapped.n = 0 THEN Num(0, 1)
    ELSE LogDistance(mapped)

gothers == <<view, cache, tileSize, rvars, pvars, ivars, wvars, evars>>

\* Lines 45-76: one call, with the arguments of this frame.
LineDistanceCall ==
    /\ spacing = NoFloat
    /\ mapped_range' = MappedRange(world_range, dimension_size)
    /\ spacing' = LineDistance(mapped_range')
    /\ UNCHANGED <<dimension_size, world_range, prev_call, gothers>>

\* The next frame: the camera has moved or zoomed, the window is the same.
NextFrame ==
    /\ spacing /= NoFloat
    /\ prev_call' = [called |-> TRUE, world_range |-> world_range, spacing |-> spacing]
    /\ world_range' \in RangesOf(dimension_size)
    /\ mapped_range' = NoFloat
    /\ spacing' = NoFloat
    /\ UNCHANGED <<dimension_size, gothers>>

InitGraticule ==
    /\ dimension_size \in Dims
    /\ world_range \in RangesOf(dimension_size)
    /\ mapped_range = NoFloat
    /\ spacing = NoFloat
    /\ prev_call = NoPrevCall
    /\ TilesIdle /\ InputIdle /\ ProjectionIdle /\ ExtIdle

NextGraticule == LineDistanceCall \/ NextFrame

SpecGraticule == InitGraticule /\ [][NextGraticule]_vars

\* C15: with a window of width or height 0 the graticule computation is cut
\* short: nothing is divided by the zero extent, and no NaN and no infinite
\* value comes out of it.
C15_ZeroWindowShortCircuits ==
    (dimension_size = 0) =>
        /\ mapped_range.kind \notin {"nan", "inf"}
        /\ spacing.kind \notin {"nan", "inf"}

\* C16: for a fixed window extent the spacing is monotonic in the range:
\* range1 <= range2 implies spacing(range1) <= spacing(range2), also in the
\* logarithmic part and where mapped_range / 2 is a power of ten.
C16_Monotonic ==
    (/\ prev_call.called
     /\ spacing /= NoFloat
     /\ dimension_size > 0
     /\ prev_call.world_range <= world_range) => Leq(prev_call.spacing, spacing)

\* The largest element of a non-empty set of numbers.
MaxOf(S) == CHOOSE x \in S : \A y \in S : y <= x

\* C17: when mapped_range = world_range * 180 * 500 / axis_px is greater than
\* 2.0 the spacing is the first d of 45, 15, 5, 2, 1 with mapped_range > 2 * d,
\* that is the largest such d; (0.1, 720) gives 5 and (0.5, 720) gives 15.
C17_FirstOfMapping ==
    (spacing /= NoFloat) =>
        /\ Exceeds(mapped_range, 2) =>
              spacing = Num(MaxOf({d \in {45, 15, 5, 2, 1} : Exceeds(mapped_range, 2 * d)}), 1)
        /\ (world_range * 10 = WorldUnit /\ dimension_size = 720) => spacing = Num(5, 1)
        /\ (world_range * 2 = WorldUnit /\ dimension_size = 720) => spacing = Num(15, 1)

\* C17 witness: the call (0.5, 720), whose mapped range is 62.5, has returned
\* after the call (0.1, 720).
C17_Witness ==
    /\ spacing = Num(15, 1)
    /\ mapped_range = Num(125, 2)
    /\ world_range * 2 = WorldUnit
    /\ dimension_size = 720
    /\ prev_call.called
    /\ prev_call.world_range * 10 = WorldUnit
    /\ prev_call.spacing = Num(5, 1)

----------------------------------------------------------------------------
(* world_x_to_pixel_x and world_y_to_pixel_y (SpecProjection)              *)

\* Bound of the model: world coordinates are 0..MaxCoord quarters of the world.
MaxCoord == 4

\* lib.rs lines 32-33: the size the window is created with.
WIDTH == 1280
HEIGHT == 720

Coords == {k * (WorldUnit \div 4) : k \in 0..MaxCoord}

\* WorldViewport: x grows to the right and y grows downwards, so the top left
\* corner has the smaller x and the smaller y.
Viewports == {v \in [top_left : [x : Coords, y : Coords],
                     bottom_right : [x : Coords, y : Coords]] :
                /\ v.top_left.x < v.bottom_right.x
                /\ v.top_left.y < v.bottom_right.y}

\* Window sizes of even width and height, in pixels.
Windows == {[w |-> WIDTH, h |-> HEIGHT], [w |-> WIDTH \div 2, h |-> HEIGHT \div 2]}

\* crate::util::map: the linear map that takes in_min to out_min and in_max to
\* out_max, for in_min /= in_max.
Map(in_min, in_max, value, out_min, out_max) ==
    Rat((value - in_min) * (out_max - out_min) + out_min * (in_max - in_min),
        in_max - in_min)

\* Faulty variant: the pixel axis runs the other way.
world_x_to_pixel_x_mirrored(world_x, vp, window_width) ==
    LET half_width == window_width \div 2
    IN  Map(vp.top_left.x, vp.bottom_right.x, world_x, half_width, 0 - half_width)
\* map_renderer.rs lines 11-24.
world_x_to_pixel_x(world_x, vp, window_width) ==
    LET half_width == window_width \div 2
    IN  Map(vp.top_left.x, vp.bottom_right.x, world_x, 0 - half_width, half_width)

\* map_renderer.rs lines 28-41.
world_y_to_pixel_y(world_y, vp, window_height) ==
    LET half_height == window_height \div 2
    IN  Map(vp.bottom_right.y, vp.top_left.y, world_y, 0 - half_height, half_height)

wothers == <<view, cache, tileSize, rvars, pvars, ivars, gvars, evars>>

\* Both projections of the location `world`.
Project ==
    /\ ~pixel.called
    /\ pixel' = [called |-> TRUE,
                 x |-> world_x_to_pixel_x(world.x, viewport, window.w),
                 y |-> world_y_to_pixel_y(world.y, viewport, window.h)]
    /\ UNCHANGED <<viewport, window, world, wothers>>

\* Another location is projected next, in the same frame.
NextPoint ==
    /\ pixel.called
    /\ world' \in [x : Coords, y : Coords]
    /\ pixel' = NoPixel
    /\ UNCHANGED <<viewport, window, wothers>>

InitProjection ==
    /\ viewport \in Viewports
    /\ window \in Windows
    /\ world \in [x : Coords, y : Coords]
    /\ pixel = NoPixel
    /\ TilesIdle /\ InputIdle /\ GraticuleIdle /\ ExtIdle

NextProjection == Project \/ NextPoint

SpecProjection == InitProjection /\ [][NextProjection]_vars

\* C18: the viewport's own edges project exactly onto the window's edges:
\* top_left.x to -window_width / 2 and bottom_right.x to +window_width / 2, for
\* every viewport with top_left.x /= bottom_right.x and every window width.
C18_EdgesExact ==
    pixel.called =>
        /\ (world.x = viewport.top_left.x) => pixel.x = Rat(0 - window.w, 2)
        /\ (world.x = viewport.bottom_right.x) => pixel.x = Rat(window.w, 2)

\* C18 witness: the right edge of a viewport that starts inside the world was
\* projected, in a window of the width the program creates it with.
C18_Witness ==
    /\ pixel.called
    /\ viewport.top_left.x > 0
    /\ world.x = viewport.bottom_right.x
    /\ pixel.x = Rat(window.w, 2)
    /\ window.w = WIDTH

\* C19: the projection wraps the longitude modulo 1.0 world units and does not
\* wrap the latitude: world_x and world_x + 1.0 project to the same pixel x,
\* world_y and world_y + 1.0 to different pixel y.
C19_LongitudeWraps ==
    pixel.called =>
        /\ pixel.x = world_x_to_pixel_x(world.x + WorldUnit, viewport, window.w)
        /\ pixel.y /= world_y_to_pixel_y(world.y + WorldUnit, viewport, window.h)

----------------------------------------------------------------------------
(* The NMEA driver: into_task and evolve of src/src/nmea_driver.rs, and    *)
(* the receiving end of its channel in run_app (SpecNmea)                  *)

\* lib.rs line 133: crossbeam_channel::bounded(16).
Capacity == 16

\* Bound: the number of sentences that parse.
MaxSent == 18

\* The base specifications' variables while another one runs.
BaseIdle == TilesIdle /\ InputIdle /\ GraticuleIdle /\ ProjectionIdle

bvars == <<tvars, ivars, gvars, wvars>>

nothers == <<bvars, dvars, lvars, kvars, qvars>>

\* Faulty variant: the message is queued whatever the channel holds.
send_unbounded(ch, v) == Append(ch, v)

\* nmea_driver.rs line 47: Sender::try_send on a bounded channel returns
\* Err(Full) at once, without queueing, when the channel holds its capacity.
try_send(ch, v) == IF Len(ch) < Capacity THEN Append(ch, v) ELSE ch

\* Faulty variant: a sentence that does not parse makes evolve return.
parse_error_returns(l, ch, v) ==
    IF l = "sentence"
    THEN [npc |-> "read", port |-> TRUE, error |-> "none", data_tx |-> try_send(ch, v)]
    ELSE [npc |-> "failed", port |-> FALSE, error |-> "parse", data_tx |-> ch]

\* Lines 44-55: the match on parser.parse_sentence(&line). Either arm goes on
\* with the next iteration of the read loop.
parse_sentence(l, ch, v) ==
    IF l = "sentence"
    THEN [npc |-> "read", port |-> TRUE, error |-> "none", data_tx |-> try_send(ch, v)]
    ELSE [npc |-> "read", port |-> TRUE, error |-> "none", data_tx |-> ch]

\* Faulty variant: the thread ends when the wait is over.
NoRestart == "exited"

\* Lines 17 and 22: the body of the thread is a `loop`, so evolve is called
\* again when the wait is over.
Restart == "open"

\* Lines 26-36: evolve opens the port; `?` returns the error.
OpenPort ==
    /\ npc = "open"
    /\ \E ok \in BOOLEAN :
          IF ok
          THEN /\ port' = TRUE
               /\ npc' = "read"
               /\ error' = "none"
          ELSE /\ port' = FALSE
               /\ npc' = "failed"
               /\ error' = "open"
    /\ line' = ""
    /\ UNCHANGED <<logged, sent, data_tx, received, nothers>>

\* Lines 38-42: line.clear() and read_line; `?` returns the error, which
\* drops the reader and with it the port.
ReadLine ==
    /\ npc = "read"
    /\ \E r \in {"error", "sentence", "garbage"} :
          /\ r = "sentence" => sent < MaxSent
          /\ IF r = "error"
             THEN /\ line' = ""
                  /\ port' = FALSE
                  /\ npc' = "failed"
                  /\ error' = "read"
             ELSE /\ line' = r
                  /\ npc' = "parse"
                  /\ UNCHANGED <<port, error>>
    /\ UNCHANGED <<logged, sent, data_tx, received, nothers>>

\* Lines 44-55.
ParseSentence ==
    /\ npc = "parse"
    /\ LET next == parse_sentence(line, data_tx, sent + 1)
       IN  /\ npc' = next.npc
           /\ port' = next.port
           /\ error' = next.error
           /\ data_tx' = next.data_tx
    /\ sent' = IF line = "sentence" THEN sent + 1 ELSE sent
    /\ UNCHANGED <<line, logged, received, nothers>>

\* Lines 18-19: evolve returned Err(e); warn!.
Warn ==
    /\ npc = "failed"
    /\ logged' = logged \cup {error}
    /\ npc' = "sleep"
    /\ UNCHANGED <<port, line, error, sent, data_tx, received, nothers>>

\* Line 20 and the `loop` of line 17: the second is over.
Wake ==
    /\ npc = "sleep"
    /\ npc' = Restart
    /\ error' = "none"
    /\ UNCHANGED <<port, line, logged, sent, data_tx, received, nothers>>

\* lib.rs lines 193-195: one try_recv of the while-let loop that found a
\* message; the one that finds none ends the loop and changes nothing.
TryRecv ==
    /\ data_tx /= <<>>
    /\ received' = Append(received, Head(data_tx))
    /\ data_tx' = Tail(data_tx)
    /\ UNCHANGED <<npc, port, line, error, logged, sent, nothers>>

NmeaThread == OpenPort \/ ReadLine \/ ParseSentence \/ Warn \/ Wake

\* lib.rs lines 133-139: the channel is made and the thread is spawned.
InitNmea ==
    /\ npc = "open"
    /\ port = FALSE
    /\ line = ""
    /\ error = "none"
    /\ logged = {}
    /\ sent = 0
    /\ data_tx = <<>>
    /\ received = <<>>
    /\ BaseIdle /\ DrawIdle /\ LinesIdle /\ PlanesIdle /\ GroupingIdle

NextNmea == OpenPort \/ ReadLine \/ ParseSentence \/ Warn \/ Wake \/ TryRecv

SpecNmea == InitNmea /\ [][NextNmea]_vars

\* The operating system schedules the driver thread: it is not held back for
\* ever while it can take a step.
SpecNmeaFair == SpecNmea /\ WF_vars(NmeaThread)

----------------------------------------------------------------------------
(* map_renderer::draw, called once a frame by run_app (SpecDraw)           *)

\* Bound: the number of changes of the camera.
MaxCamera == 7

dothers == <<bvars, nvars, lvars, kvars, qvars>>

\* map_renderer.rs line 107: get_world_viewport, a function of the camera
\* and the window.
get_world_viewport(v) == [camera |-> v]

UpdateCall(name, vp) == [fn |-> "update", pipeline |-> name, camera |-> vp.camera]

RenderCall(name, v) == [fn |-> "render_tile_set", pipeline |-> name, camera |-> v]

LatLongCall(vp) == [fn |-> "draw_lat_long", pipeline |-> "none", camera |-> vp.camera]

\* Faulty variant: the tile sets are rendered before the pipelines are updated.
draw_render_first(v, enabled) ==
    LET vp == get_world_viewport(v)
    IN  <<RenderCall("satellite", v)>>
        \o (IF enabled THEN <<RenderCall("weather", v)>> ELSE <<>>)
        \o <<UpdateCall("satellite", vp)>>
        \o (IF enabled THEN <<UpdateCall("weather", vp)>> ELSE <<>>)
        \o <<LatLongCall(vp)>>

\* map_renderer.rs lines 107-132: the calls of draw, in order. The first
\* pipeline of the map is the satellite one, the second the weather one.
draw(v, enabled) ==
    LET vp == get_world_viewport(v)
    IN  <<UpdateCall("satellite", vp)>>
        \o (IF enabled THEN <<UpdateCall("weather", vp)>> ELSE <<>>)
        \o <<RenderCall("satellite", v)>>
        \o (IF enabled THEN <<RenderCall("weather", v)>> ELSE <<>>)
        \o <<LatLongCall(vp)>>

\* lib.rs lines 159-177: a window event that changes the camera.
CameraEvent ==
    /\ viewer < MaxCamera
    /\ viewer' = viewer + 1
    /\ UNCHANGED <<weather_enabled, calls, dothers>>

\* lib.rs line 324: the weather button was clicked.
ToggleWeather ==
    /\ weather_enabled' = ~weather_enabled
    /\ UNCHANGED <<viewer, calls, dothers>>

\* lib.rs lines 198-219: MainEventsCleared draws the map.
DrawFrame ==
    /\ calls' = draw(viewer, weather_enabled)
    /\ UNCHANGED <<viewer, weather_enabled, dothers>>

\* lib.rs lines 116-120.
InitDraw ==
    /\ viewer = 0
    /\ weather_enabled = FALSE
    /\ calls = <<>>
    /\ BaseIdle /\ NmeaIdle /\ LinesIdle /\ PlanesIdle /\ GroupingIdle

NextDraw == CameraEvent \/ ToggleWeather \/ DrawFrame

SpecDraw == InitDraw /\ [][NextDraw]_vars

----------------------------------------------------------------------------
(* The lines of draw_lat_long (SpecLines). Positions and spacings are      *)
(* whole numbers of a grid unit: degrees of latitude for the lines of      *)
(* latitude, world x for the lines of longitude.                           *)

\* Bounds: the edges of the viewport lie in -MaxEdge..MaxEdge, the spacing in
\* 1..MaxSpacing.
MaxEdge == 4
MaxSpacing == 3

lothers == <<bvars, nvars, dvars, kvars, qvars>>

\* util::modulo_ceil: the smallest multiple of the spacing that is >= value.
modulo_ceil(value, d) == ((value + d - 1) \div d) * d

\* ceil(range / d) for range >= 0.
CeilDiv(range, d) == (range + d - 1) \div d

\* Faulty variant: the line count without the + 1.0.
line_count_no_margin(range, d) == CeilDiv(range, d)

\* Lines 284 and 341-342: (range / distance + 1.0).ceil() as usize.
line_count(range, d) == CeilDiv(range, d) + 1

\* Lines 280-284 and 301-302: latitude decreases from the top edge.
latitude_lines(lat_top, lat_bottom, d) ==
    LET lat_start == modulo_ceil(lat_top, d)
        lat_lines == line_count(lat_top - lat_bottom, d)
    IN  [i \in 1..lat_lines |-> lat_start - (i - 1) * d]

\* Lines 339-342 and 357-359: world x increases from the left edge.
longitude_lines(left, right, d) ==
    LET x_start == modulo_ceil(left, d)
        lng_lines == line_count(right - left, d)
    IN  [i \in 1..lng_lines |-> x_start + (i - 1) * d]

Edges == (0 - MaxEdge)..MaxEdge

\* Lines 276-326 or 329-381: the lines of one axis are drawn.
DrawLines ==
    /\ lines = <<>>
    /\ lines' = IF axis = "latitude"
                THEN latitude_lines(edge_start, edge_far, line_distance)
                ELSE longitude_lines(edge_start, edge_far, line_distance)
    /\ UNCHANGED <<axis, edge_start, edge_far, line_distance, lothers>>

\* The viewport of the next frame: the top latitude is not below the bottom
\* one, the left x not right of the right one.
NextViewport ==
    /\ lines /= <<>>
    /\ axis' \in {"latitude", "longitude"}
    /\ edge_start' \in Edges
    /\ edge_far' \in Edges
    /\ IF axis' = "latitude" THEN edge_far' <= edge_start' ELSE edge_start' <= edge_far'
    /\ line_distance' \in 1..MaxSpacing
    /\ lines' = <<>>
    /\ UNCHANGED lothers

InitLines ==
    /\ axis \in {"latitude", "longitude"}
    /\ edge_start \in Edges
    /\ edge_far \in Edges
    /\ IF axis = "latitude" THEN edge_far <= edge_start ELSE edge_start <= edge_far
    /\ line_distance \in 1..MaxSpacing
    /\ lines = <<>>
    /\ BaseIdle /\ NmeaIdle /\ DrawIdle /\ PlanesIdle /\ GroupingIdle

NextLines == DrawLines \/ NextViewport

SpecLines == InitLines /\ [][NextLines]_vars

----------------------------------------------------------------------------
(* PlaneRequester and plane_data_loop of src/src/request_plane.rs          *)
(* (SpecPlanes)                                                            *)

\* Bound: the number of calls of request_plane_data.
MaxRequests == 4

\* request_plane_data lines 157-161: the groups pushed to plane_airlines.
Groups == 5

kothers == <<bvars, nvars, dvars, lvars, qvars>>

\* Faulty variant: a failed request empties the stored list.
cleared_on_error(stored, result, data) == IF result = "ok" THEN data ELSE NoPlanes

\* Lines 67-75 and 77-80: *guard = Arc::new(plane_data) in the Ok arm only.
stored_after(stored, result, data) == IF result = "ok" THEN data ELSE stored

\* Lines 101-112: the request is sent; `?` returns the error.
SendRequest ==
    /\ ppc \in {"send1", "send2"}
    /\ requests < MaxRequests
    /\ requests' = requests + 1
    /\ \E answered \in BOOLEAN :
          IF answered
          THEN /\ outcome' = "none"
               /\ plane_airlines' = [request |-> requests', groups |-> 0]
               /\ ppc' = IF ppc = "send1" THEN "states1" ELSE "states2"
          ELSE /\ outcome' = "err"
               /\ plane_airlines' = NoPlanes
               /\ ppc' = IF ppc = "send1" THEN "match1" ELSE "match2"
    /\ UNCHANGED <<planes_storage, snapshot, kothers>>

\* Lines 113-155: the states are sorted into the local vectors; the unwrap of
\* line 120 panics on a state with a longitude and no latitude, which ends
\* the task.
SortStates ==
    /\ ppc \in {"states1", "states2"}
    /\ \E panics \in BOOLEAN :
          IF panics
          THEN /\ ppc' = "panicked"
               /\ outcome' = "panic"
               /\ plane_airlines' = NoPlanes
          ELSE /\ ppc' = IF ppc = "states1" THEN "push1" ELSE "push2"
               /\ UNCHANGED <<outcome, plane_airlines>>
    /\ UNCHANGED <<requests, planes_storage, snapshot, kothers>>

\* Lines 157-163: a group is pushed to the local list; Ok after the last.
PushGroup ==
    /\ ppc \in {"push1", "push2"}
    /\ plane_airlines' = [plane_airlines EXCEPT !.groups = @ + 1]
    /\ IF plane_airlines'.groups = Groups
       THEN /\ outcome' = "ok"
            /\ ppc' = IF ppc = "push1" THEN "match1" ELSE "match2"
       ELSE UNCHANGED <<outcome, ppc>>
    /\ UNCHANGED <<requests, planes_storage, snapshot, kothers>>

\* Lines 67-75 (the first request of an iteration) and 77-80 (the second).
MatchResult ==
    /\ ppc \in {"match1", "match2"}
    /\ planes_storage' = stored_after(planes_storage, outcome, plane_airlines)
    /\ ppc' = IF ppc = "match1" THEN "send2" ELSE "sleep"
    /\ UNCHANGED <<requests, outcome, plane_airlines, snapshot, kothers>>

\* Lines 82-93 and the `loop` of line 64.
Sleep ==
    /\ ppc = "sleep"
    /\ ppc' = "send1"
    /\ UNCHANGED <<requests, outcome, plane_airlines, planes_storage, snapshot, kothers>>

\* Lines 51-54: a reader locks the mutex and clones the Arc.
PlanesStorage ==
    /\ snapshot' = planes_storage
    /\ UNCHANGED <<ppc, requests, outcome, plane_airlines, planes_storage, kothers>>

\* Lines 42-48.
InitPlanes ==
    /\ ppc = "send1"
    /\ requests = 0
    /\ outcome = "none"
    /\ plane_airlines = NoPlanes
    /\ planes_storage = NoPlanes
    /\ snapshot = NoPlanes
    /\ BaseIdle /\ NmeaIdle /\ DrawIdle /\ LinesIdle /\ GroupingIdle

NextPlanes == SendRequest \/ SortStates \/ PushGroup \/ MatchResult \/ Sleep \/ PlanesStorage

SpecPlanes == InitPlanes /\ [][NextPlanes]_vars

----------------------------------------------------------------------------
(* request_plane_data of src/src/request_plane.rs: the grouping of the     *)
(* states by airline (SpecGrouping)                                        *)

\* Bound: the number of states in an answer of the API.
MaxStates == 2

qothers == <<bvars, nvars, dvars, lvars, kvars>>

\* The callsigns of the model, as character sequences: one per prefix the
\* code knows, an unknown one, and one of three characters only.
Callsigns ==
    {<<"N", "K", "S", "1">>, <<"A", "A", "L", "1">>, <<"S", "W", "A", "1">>,
     <<"U", "A", "L", "1">>, <<"D", "A", "L", "1">>, <<"X", "Y", "Z", "1">>,
     <<"N", "K", "S">>}

\* A state vector of the API: the fields request_plane_data reads. A callsign
\* that is None has some = FALSE.
StateVectors ==
    [on_ground : BOOLEAN, longitude : BOOLEAN, latitude : BOOLEAN,
     callsign : [some : {TRUE}, chars : Callsigns] \cup {[some |-> FALSE, chars |-> <<>>]}]

\* Lines 122-137.
AirlineOf(callsign) ==
    IF callsign.some
    THEN IF Len(callsign.chars) > 3
         THEN LET prefix == SubSeq(callsign.chars, 1, 3)
              IN  IF prefix = <<"N", "K", "S">> THEN "Spirit"
                  ELSE IF prefix = <<"A", "A", "L">> THEN "American"
                  ELSE IF prefix = <<"S", "W", "A">> THEN "Southwest"
                  ELSE IF prefix = <<"U", "A", "L">> THEN "United"
                  ELSE IF prefix = <<"D", "A", "L">> THEN "Delta"
                  ELSE "Other"
         ELSE "Other"
    ELSE "Other"

\* Lines 146-152: the vector a plane of the airline is pushed to.
PushedTo(airline) ==
    IF airline \in {"Spirit", "American", "Southwest", "United"} THEN airline ELSE "Other"

\* Lines 118-119: the states a plane is made of.
Kept(st) == ~st.on_ground /\ st.longitude

\* Line 120: latitude.unwrap() on a kept state.
Panics(sts) == \E i \in 1..Len(sts) : Kept(sts[i]) /\ ~sts[i].latitude

\* Lines 139-144: the plane of the i-th state.
PlaneOf(sts, i) == [state |-> i, airline |-> AirlineOf(sts[i].callsign)]

\* Lines 113-155: the planes pushed to the vector of a group, in order.
PlanesOf(sts, group) ==
    LET kept == SelectSeq([i \in 1..Len(sts) |-> i],
                          LAMBDA i : Kept(sts[i]) /\ PushedTo(PlaneOf(sts, i).airline) = group)
    IN  [j \in 1..Len(kept) |-> PlaneOf(sts, kept[j])]

\* Lines 157-161.
GroupOrder == <<"Spirit", "American", "Southwest", "United", "Other">>

\* Lines 113-163, after the request was answered.
request_plane_data(sts) ==
    IF Panics(sts)
    THEN [kind |-> "panic", plane_airlines |-> <<>>]
    ELSE [kind |-> "ok",
          plane_airlines |-> [g \in 1..Len(GroupOrder) |->
                                <<GroupOrder[g], PlanesOf(sts, GroupOrder[g])>>]]

\* Lines 100-164.
RequestPlaneData ==
    /\ grouped = NotGrouped
    /\ grouped' = request_plane_data(states)
    /\ UNCHANGED <<states, qothers>>

\* Line 112: the answer of the API, of any length up to the bound.
InitGrouping ==
    /\ \E n \in 0..MaxStates : states \in [1..n -> StateVectors]
    /\ grouped = NotGrouped
    /\ BaseIdle /\ NmeaIdle /\ DrawIdle /\ LinesIdle /\ PlanesIdle

NextGrouping == RequestPlaneData

SpecGrouping == InitGrouping /\ [][NextGrouping]_vars

----------------------------------------------------------------------------
(* Properties of render_tile_set (SpecRender)                              *)

Root == TileId(0, 0, 0)

Idx(s) == 1..Len(s)

\* The image d shows the tile id or one of its ancestors (x >> k, y >> k) at zoom - k.
Shows(d, id) ==
    \E k \in 0..id.zoom :
        /\ d.zoom = id.zoom - k
        /\ d.tile_x = id.x \div Pow2(k)
        /\ d.tile_y = id.y \div Pow2(k)

Covered(id) == \E i \in Idx(drawn) : Shows(drawn[i], id)

ReadyIds == {id \in DOMAIN cache : cache[id].state = "Ready"}

\* C1: whenever the zoom-0 root tile is Ready, once render_tile_set has run every
\* tile requested at the target zoom is covered by a drawn tile: itself or one of
\* its ancestors.
C1_FullCoverage ==
    (rpc = "done" /\ GetTile(cache, Root)) => \A id \in Needed(view) : Covered(id)

\* C2: with a cache that holds only the zoom-0 tile, render_tile_set produces
\* exactly one RenderLayer, at zoom 0, and it covers every requested tile.
C2_OnlyRootOneLayer ==
    (rpc = "done" /\ DOMAIN cache = {Root} /\ ReadyIds = {Root}) =>
        /\ Len(draw_layers) = 1
        /\ draw_layers[1].zoom_level = 0
        /\ \A id \in Needed(view) : Covered(id)

\* C3: no emitted RenderLayer holds the same tile coordinate (tile_x, tile_y)
\* twice, also when several missing siblings share one ancestor.
C3_NoDoubleDraw ==
    \A l \in Idx(draw_layers) :
        \A i, j \in Idx(draw_layers[l].tiles) :
            (i /= j) =>
                \/ draw_layers[l].tiles[i].tile_x /= draw_layers[l].tiles[j].tile_x
                \/ draw_layers[l].tiles[i].tile_y /= draw_layers[l].tiles[j].tile_y

\* C4: render_tile_set completes without error in every cache state, also when
\* tile_size() is None, and then draws nothing.
C4_FrameCompletes ==
    /\ rpc /= "panic"
    /\ (rpc = "done" /\ ~tileSize) => drawn = <<>>

\* C5: when every tile required at the target zoom Z is in the cache, no tile
\* of a zoom below Z is put in a layer or drawn.
C5_NoOverdraw ==
    (rpc = "done" /\ \A id \in Needed(view) : GetTile(cache, id)) =>
        /\ \A i \in Idx(drawn) : drawn[i].zoom = view.zoom
        /\ \A l \in Idx(draw_layers) :
              draw_layers[l].zoom_level < view.zoom => draw_layers[l].tiles = <<>>

\* C5 witness: a complete target level above a Ready parent, all of it drawn.
C5_Witness ==
    /\ rpc = "done"
    /\ view.zoom >= 1
    /\ \A id \in Needed(view) : GetTile(cache, id) /\ GetTile(cache, Up(id, 1))
    /\ Len(drawn) = view.cols * view.rows
    /\ Len(drawn) >= 2

\* C10: the layers are drawn coarsest first: along the draw sequence the zoom
\* never decreases, and the zoom of the layers strictly increases.
C10_CoarsestFirst ==
    (rpc = "done") =>
        /\ \A i, j \in Idx(draw_layers) :
              (i < j) => draw_layers[i].zoom_level < draw_layers[j].zoom_level
        /\ \A i, j \in Idx(drawn) : (i < j) => drawn[i].zoom <= drawn[j].zoom

\* C10 witness: tiles of two zoom levels were drawn, the coarser one first.
C10_Witness ==
    /\ rpc = "done"
    /\ \E i, j \in Idx(drawn) : i < j /\ drawn[i].zoom < drawn[j].zoom

\* The number of iterations of the fallback loop so far: each pushes one layer.
Iterations == Len(draw_layers)

\* C11: the fallback loop of render_tile_set terminates for every cache state
\* and target zoom Z after at most Z + 1 iterations, the candidate zoom going
\* down by exactly one per iteration and never below 0; when the loop's
\* condition fails the function goes on to draw.
C11_LoopTerminates ==
    (rpc \in {"loop", "done"}) =>
        /\ zoom_level = view.zoom - Iterations
        /\ zoom_level >= 0
        /\ Iterations <= view.zoom + 1
        /\ (rpc = "loop" /\ ~LoopCond(missing, zoom_level)) => ENABLED RenderDraw

\* C11 witness: the longest run, from the largest zoom down to zoom 0 with
\* tiles still missing.
C11_Witness ==
    /\ rpc = "done"
    /\ view.zoom = MaxZ
    /\ Iterations = MaxZ
    /\ zoom_level = 0
    /\ missing.tiles /= <<>>

\* TileId invariant: 0 <= x, y < 2^z and 0 <= z <= MAX_ZOOM_LEVEL.
InRange(x, y, z) ==
    /\ z \in 0..MAX_ZOOM_LEVEL
    /\ x \in 0..(Pow2(z) - 1)
    /\ y \in 0..(Pow2(z) - 1)

LayerInRange(layer) ==
    \A i \in Idx(layer.tiles) :
        InRange(layer.tiles[i].tile_x, layer.tiles[i].tile_y, layer.zoom_level)

\* C20: every TileId tile_iter yields, and every TileId render_tile_set looks
\* up or puts in a layer at a fallback level z (the ancestors obtained by
\* halving), satisfies 0 <= x, y < 2^z with 0 <= z <= 20.
C20_TileIdsInRange ==
    /\ \A id \in Needed(view) : InRange(id.x, id.y, id.zoom)
    /\ (rpc \in {"loop", "done"}) =>
          /\ LayerInRange(missing)
          /\ \A l \in Idx(draw_layers) : LayerInRange(draw_layers[l])

\* C20 witness: inside the loop, below the target zoom, the ancestor of a tile
\* at the edge of the world is missing and is the next to be looked up.
C20_Witness ==
    /\ rpc = "loop"
    /\ LoopCond(missing, zoom_level)
    /\ zoom_level < view.zoom
    /\ \E i \in Idx(missing.tiles) :
          /\ missing.tiles[i].tile_x = Pow2(zoom_level) - 1
          /\ missing.tiles[i].tile_y = Pow2(zoom_level) - 1

\* The ancestor-or-self of the requested tile id, k levels up, is the nearest
\* Ready one: it is Ready and nothing on the path down to id is.
NearestReadyAt(id, k) ==
    /\ GetTile(cache, Up(id, k))
    /\ \A j \in 0..(k - 1) : ~GetTile(cache, Up(id, j))

\* How many times the layer holds the tile id.
Occurrences(layer, id) ==
    Cardinality({i \in Idx(layer.tiles) :
                    /\ layer.tiles[i].tile_x = id.x
                    /\ layer.tiles[i].tile_y = id.y
                    /\ layer.zoom_level = id.zoom})

\* The tiles that the layer k levels below the target zoom is to hold: for
\* each requested tile, in the order of tile_iter, whose nearest Ready
\* ancestor-or-self is k levels up, that ancestor.
NearestLayer(k) ==
    LET hit == SelectSeq(TileIter(view),
                         LAMBDA p : NearestReadyAt(TileId(p[1], p[2], view.zoom), k))
    IN  [i \in 1..Len(hit) |-> <<hit[i][1] \div Pow2(k), hit[i][2] \div Pow2(k)>>]

\* C22: the highest available resolution wins. The tile put in a layer for a
\* requested tile is its nearest Ready ancestor-or-self: the layer of zoom z
\* holds a tile once for each requested tile whose nearest Ready
\* ancestor-or-self it is, and nothing else, so a tile of a zoom z below the
\* target enters a layer only for requested tiles with no Ready tile on the
\* path down to z + 1.
C22_HighestResolutionWins ==
    \A l \in Idx(draw_layers) :
        LET layer == draw_layers[l]
        IN  [i \in Idx(layer.tiles) |-> <<layer.tiles[i].tile_x, layer.tiles[i].tile_y>>]
                = NearestLayer(view.zoom - layer.zoom_level)

\* C22 witness: a requested tile that is Ready itself although its parent is
\* Ready as well, next to a sibling that is drawn by that parent.
C22_Witness ==
    /\ rpc = "done"
    /\ \E id, sib \in Needed(view) :
          /\ id /= sib
          /\ Up(id, 1) = Up(sib, 1)
          /\ GetTile(cache, id)
          /\ GetTile(cache, Up(id, 1))
          /\ ~GetTile(cache, sib)
          /\ \E l \in Idx(draw_layers) : Occurrences(draw_layers[l], id) = 1
          /\ \E l \in Idx(draw_layers) : Occurrences(draw_layers[l], Up(sib, 1)) = 1

\* The screen centre of the block of target-zoom tiles that the tile of
\* coordinate a, k levels below the target zoom, stands for: the first of them
\* has the coordinate a * 2^k and the centre line 174 (175) gives it.
BlockCentreX(a, k) ==
    (a * Pow2(k) - view.x0) * TilePx - HalfWidth(view) + TilePx \div 2
        + ((Pow2(k) - 1) * TilePx) \div 2

BlockCentreY(b, k) ==
    0 - (b * Pow2(k) - view.y0) * TilePx + HalfHeight(view) + TilePx \div 2
        - ((Pow2(k) - 1) * TilePx) \div 2

WellPlaced(layer) ==
    LET k == view.zoom - layer.zoom_level
    IN  /\ layer.size = [x |-> TilePx * Pow2(k), y |-> TilePx * Pow2(k)]
        /\ \A i \in Idx(layer.tiles) :
              /\ layer.tiles[i].x = BlockCentreX(layer.tiles[i].tile_x, k)
              /\ layer.tiles[i].y = BlockCentreY(layer.tiles[i].tile_y, k)

\* C23: a still-missing tile (x, y) of zoom z is replaced by (x / 2, y / 2) of
\* zoom z - 1 at double size, its centre moved by the quadrant (x % 2, y % 2)
\* to the centre of the block its siblings and it make up: every tile of every
\* layer sits at the centre of the block of requested tiles it stands for, so
\* siblings yield one parent position and the parent covers each child.
C23_AncestorPlacement ==
    (rpc \in {"loop", "done"}) =>
        /\ zoom_level >= 0 => WellPlaced(missing)
        /\ \A l \in Idx(draw_layers) : WellPlaced(draw_layers[l])

\* C23 witness: the four siblings of one parent were all missing and gave the
\* same entry four times.
C23_Witness ==
    /\ rpc = "loop"
    /\ view.cols = 2 /\ view.rows = 2
    /\ view.x0 % 2 = 0 /\ view.y0 % 2 = 0
    /\ zoom_level = view.zoom - 1
    /\ Len(missing.tiles) = 4
    /\ \A i \in Idx(missing.tiles) : missing.tiles[i] = missing.tiles[1]

\* C25: the widget id list is resized to the number of tiles of all layers and
\* every index id_counter an image is set with is below that number.
C25_IdsInBounds ==
    (rpc = "done") =>
        /\ ids_len = TileCount(draw_layers)
        /\ \A i \in Idx(drawn) : drawn[i].id \in 0..(ids_len - 1)

\* C25 witness: two layers with tiles were drawn and the last image used the
\* last id of the list.
C25_Witness ==
    /\ rpc = "done"
    /\ Len(draw_layers) >= 2
    /\ \A l \in Idx(draw_layers) : draw_layers[l].tiles /= <<>>
    /\ drawn /= <<>>
    /\ drawn[Len(drawn)].id = ids_len - 1

----------------------------------------------------------------------------
(* Properties of the tile pipeline (Spec)                                  *)

EntryState(c, id) == IF id \in DOMAIN c THEN c[id].state ELSE "Absent"

\* C6: at every moment no TileId has two outstanding fetches, running or
\* completed and not yet taken by update.
C6_NoDoubleFetch ==
    \A id \in AllTiles : CopiesIn(id, fetching) + CopiesIn(id, mailbox) <= 1

\* C6 witness: the needed tile is being fetched while the completed fetch of
\* another tile waits for the next update.
C6_Witness ==
    \E id \in Needed(view), other \in DynTiles :
        /\ other /= id
        /\ BagIn(id, fetching) /\ id \in outstanding /\ EntryState(cache, id) = "Pending"
        /\ BagIn(other, mailbox) /\ other \in outstanding

InInterest(id, v, r) ==
    \E n \in Needed(v) :
        \E dx, dy \in (0 - r)..r :
            LET m == TileId(n.x + dx, n.y + dy, n.zoom)
            IN  \/ id = m
                \/ n.zoom > 0 /\ id = TileId(m.x \div 2, m.y \div 2, m.zoom - 1)
                \/ /\ id.zoom = m.zoom + 1
                   /\ id.x \div 2 = m.x
                   /\ id.y \div 2 = m.y

\* The radius of interest around the grid, in tiles.
InterestRadius == 0

\* C8: the cache stays bounded by the viewport's footprint: once update has
\* run in a frame, no entry is left for a tile outside the interest radius of
\* the view.
C8_CacheBounded ==
    (frame = "drawing") => \A id \in DOMAIN cache : InInterest(id, view, InterestRadius)

\* C9: get_tile answers Some only for a Ready entry, and until the next update
\* a repeated call for the same TileId gets the answer of the earlier call: the
\* tile classified as resolved is still there when it is drawn.
C9_GetTileStable ==
    got.called =>
        /\ got.some = GetTile(cache, got.id)
        /\ got.some => EntryState(cache, got.id) = "Ready"

\* C9 witness: get_tile answered None for a tile whose fetch has completed
\* since, the result waiting for the next update.
C9_Witness ==
    /\ got.called
    /\ ~got.some
    /\ BagIn(got.id, mailbox)
    /\ \E id \in DynTiles : EntryState(cache, id) = "Ready"

\* C9 second case: an answer Some for the ancestor of a needed tile whose own
\* fetch has completed since.
C9_WitnessSome ==
    /\ got.called
    /\ got.some
    /\ got.id \notin Needed(view)
    /\ \E id \in Needed(view) : BagIn(id, mailbox)

----------------------------------------------------------------------------
(* Properties of the cursor and button handlers (SpecInput)                *)

\* C26: the camera is moved only by a cursor-move event that arrives while the
\* left button is held and a previous cursor position is known; left_pressed
\* is the state of the latest left-button event; a cursor move while the
\* button is released, or the first one, makes no call on the camera and
\* still stores the position.
C26_PanOnlyWhileLeftHeld ==
    /\ []((event.kind = "MouseInput" /\ event.button = "Left") =>
             (left_pressed <=> event.state = "Pressed"))
    /\ [][left_pressed' = IF event'.kind = "MouseInput" /\ event'.button = "Left"
                          THEN event'.state = "Pressed"
                          ELSE left_pressed]_vars
    /\ [][(call'.fn = "move_camera_pixels") =>
             (event'.kind = "CursorMoved" /\ left_pressed /\ last_cursor_pos.some)]_vars
    /\ [][(event'.kind = "CursorMoved") =>
             (/\ last_cursor_pos' = [some |-> TRUE, x |-> event'.x, y |-> event'.y]
              /\ zoom' = zoom
              /\ (~left_pressed \/ ~last_cursor_pos.some) => call' = NoCall)]_vars

\* C26 witness: the cursor moved to the far corner with the left button
\* released: no call on the camera, the position stored.
C26_Witness ==
    /\ event.kind = "CursorMoved"
    /\ ~left_pressed
    /\ call = NoCall
    /\ last_cursor_pos = [some |-> TRUE, x |-> MaxCursorX, y |-> MaxCursorY]

----------------------------------------------------------------------------
(* Properties of map_renderer::draw (SpecDraw)                             *)

\* C24: in every frame each pipeline that is rendered was updated earlier in
\* the frame, with the viewport of the camera it is rendered with, and the
\* satellite pipeline is updated in every frame.
C24_UpdateBeforeRender ==
    /\ \A i \in 1..Len(calls) :
          calls[i].fn = "render_tile_set" =>
              \E j \in 1..(i - 1) : calls[j] = [calls[i] EXCEPT !.fn = "update"]
    /\ calls /= <<>> =>
          \E j \in 1..Len(calls) : calls[j].fn = "update" /\ calls[j].pipeline = "satellite"

\* C24 witness: a frame with both pipelines rendered, drawn after the camera
\* changed; the weather was switched off since.
C24_Witness ==
    /\ \E i \in 1..Len(calls) :
          /\ calls[i].fn = "render_tile_set"
          /\ calls[i].pipeline = "weather"
          /\ calls[i].camera > 0
    /\ ~weather_enabled

----------------------------------------------------------------------------
(* Properties of draw_lat_long (SpecLines)                                 *)

Lower == IF axis = "latitude" THEN edge_far ELSE edge_start

Upper == IF axis = "latitude" THEN edge_start ELSE edge_far

LinePositions == {lines[i] : i \in 1..Len(lines)}

\* C27: a line is drawn at every multiple of the spacing that lies between
\* the two edges of the viewport, and the lines do not stop short: the first
\* is at the ceiling-to-multiple of the starting edge and the one that would
\* follow the last lies beyond the far edge.
C27_GraticuleComplete ==
    lines /= <<>> =>
        /\ \A m \in Lower..Upper : m % line_distance = 0 => m \in LinePositions
        /\ lines[1] = modulo_ceil(edge_start, line_distance)
        /\ IF axis = "latitude"
           THEN lines[Len(lines)] - line_distance < edge_far
           ELSE lines[Len(lines)] + line_distance > edge_far

\* C27 witness: both edges are multiples of the spacing and a multiple lies
\* between them; all three have a line.
C27_Witness ==
    /\ lines /= <<>>
    /\ line_distance = 2
    /\ Lower = 0 - 2
    /\ Upper = 2
    /\ {0 - 2, 0, 2} \subseteq LinePositions

----------------------------------------------------------------------------
(* Properties of the plane snapshot (SpecPlanes)                           *)

Complete(list) == list.groups = Groups /\ list.request \in 1..requests

\* C30: the stored list changes only when a request has succeeded, to the
\* complete result of that request; when a request has failed the loop leaves
\* the list as it is and goes on; what a reader gets is the initial empty
\* list or the complete result of a successful request, never a list in the
\* making.
C30_SnapshotOnlyOnSuccess ==
    /\ [](planes_storage = NoPlanes \/ Complete(planes_storage))
    /\ [](snapshot = NoPlanes \/ Complete(snapshot))
    /\ [][planes_storage' /= planes_storage =>
             (/\ ppc \in {"match1", "match2"}
              /\ outcome = "ok"
              /\ planes_storage' = [request |-> requests, groups |-> Groups])]_vars
    /\ [][(ppc \in {"match1", "match2"} /\ outcome = "err" /\ ppc' /= ppc) =>
             (/\ planes_storage' = planes_storage
              /\ ppc' = IF ppc = "match1" THEN "send2" ELSE "sleep")]_vars
    /\ [][snapshot' /= snapshot => snapshot' = planes_storage]_vars

\* C30 witness: the reader holds the result of the second request, which is
\* still the stored one, the third having failed; a fourth list is in the
\* making.
C30_Witness ==
    /\ snapshot = [request |-> 2, groups |-> Groups]
    /\ planes_storage = snapshot
    /\ requests = 4
    /\ plane_airlines.groups \in 1..(Groups - 1)

----------------------------------------------------------------------------
(* Properties of the NMEA driver (SpecNmea, SpecNmeaFair)                  *)

\* C21: whenever evolve returns an error (the port does not open, or a line
\* read fails) the task logs it, waits, and calls evolve again, which reopens
\* the port and, the port open, reads; the thread never ends.
C21_RestartOnError ==
    /\ [](npc \in {"open", "read", "parse", "failed", "sleep"})
    /\ [](npc = "failed" => error \in {"open", "read"} /\ ~port)
    /\ [][npc = "failed" /\ npc' /= npc => npc' = "sleep" /\ error \in logged']_vars
    /\ [][npc' = "open" /\ npc /= "open" => npc = "sleep"]_vars
    /\ [][npc = "open" /\ port' => npc' = "read"]_vars
    /\ (npc = "failed") ~> (npc = "open")

\* C21 witness: the port is open and the task reads, after a failure to open
\* and a failed read were both logged.
C21_Witness ==
    /\ logged = {"open", "read"}
    /\ npc = "read"
    /\ port

StrictlyIncreasing(q) == \A i, j \in 1..Len(q) : i < j => q[i] < q[j]

\* C28: the driver never blocks on the UI. The step that hands a message over
\* can always be taken; with the channel full the message is dropped and the
\* task reads on, otherwise it is queued; the channel never holds more than 16
\* messages; the UI receives the messages in the order they were sent.
C28_NeverBlocksOnUi ==
    /\ [](npc = "parse" => ENABLED ParseSentence)
    /\ [](Len(data_tx) <= Capacity)
    /\ [](StrictlyIncreasing(received \o data_tx))
    /\ [][npc = "parse" /\ npc' /= npc /\ line = "sentence" =>
            /\ npc' = "read"
            /\ data_tx' = IF Len(data_tx) = Capacity THEN data_tx
                                                   ELSE Append(data_tx, sent')]_vars

\* C28 witness: the channel is full, a message has been dropped, and the UI
\* has received messages.
C28_Witness ==
    /\ Len(data_tx) = Capacity
    /\ sent > Len(received) + Len(data_tx)
    /\ received /= <<>>

\* C29: a sentence that fails to parse is skipped: the port stays open, the
\* task goes on reading without the wait, nothing is sent and into_task logs
\* nothing; the read loop is left only by an error of open or read_line.
C29_ParseFailureSkipped ==
    /\ [][npc = "parse" /\ npc' /= npc /\ line = "garbage" =>
            /\ npc' = "read"
            /\ port /\ port'
            /\ data_tx' = data_tx
            /\ sent' = sent
            /\ logged' = logged]_vars
    /\ [][(npc \in {"read", "parse"} /\ npc' \notin {"read", "parse"}) =>
            (npc = "read" /\ npc' = "failed" /\ error' = "read")]_vars
    /\ [][npc' = "failed" /\ npc /= "failed" => error' \in {"open", "read"}]_vars

\* C29 witness: the task reads again, the port open, after a sentence that did
\* not parse; sentences were sent before it.
C29_Witness ==
    /\ npc = "read"
    /\ line = "garbage"
    /\ port
    /\ data_tx /= <<>>

----------------------------------------------------------------------------
(* Properties of request_plane_data (SpecGrouping)                         *)

\* The groups of the result that hold a plane of the i-th state.
GroupsHolding(i) ==
    {g \in 1..Len(grouped.plane_airlines) :
        \E j \in 1..Len(grouped.plane_airlines[g][2]) :
            grouped.plane_airlines[g][2][j].state = i}

\* C31: request_plane_data groups the planes consistently: the result has
\* exactly the five groups Spirit, American, Southwest, United, Other in that
\* order, every airborne state with a longitude is in exactly one group, and
\* every plane in the group keyed by airline A has plane.airline = A, for
\* every callsign prefix, DAL included.
C31_GroupsConsistent ==
    grouped.kind = "ok" =>
        /\ [g \in 1..Len(grouped.plane_airlines) |-> grouped.plane_airlines[g][1]]
              = <<"Spirit", "American", "Southwest", "United", "Other">>
        /\ \A i \in 1..Len(states) :
              Kept(states[i]) => Cardinality(GroupsHolding(i)) = 1
        /\ \A g \in 1..Len(grouped.plane_airlines) :
              \A j \in 1..Len(grouped.plane_airlines[g][2]) :
                  grouped.plane_airlines[g][2][j].airline = grouped.plane_airlines[g][1]

====
